---- MODULE Spec2Model ----
(***************************************************************************)
(* The "Manage" section of the My Sites sidebar                            *)
(* (client/my-sites/sidebar/manage-menu.jsx).                              *)
(*                                                                         *)
(* ManageMenu is a PureComponent: its only state is its props, and         *)
(* render() computes, from the props and the process-wide feature-flag     *)
(* configuration, the list of menu items and the list of children handed   *)
(* to React (one SidebarItem or null per menu item).                       *)
(*                                                                         *)
(* JavaScript values are modelled as follows.                              *)
(*   - strings are TLA+ strings, + on strings is \o;                       *)
(*   - undefined / null is the string Undefined, which no other string of  *)
(*     the model equals;                                                   *)
(*   - an object is a record, an absent property is an absent field;       *)
(*   - a rendered child is a record with rendered = TRUE, the child null   *)
(*     is Null.                                                            *)
(*                                                                         *)
(* A menu item keeps the fields render() decides on: name, capability,     *)
(* config, queryable, link, wpAdminLink and showOnAllMySites.  Labels,     *)
(* button links and the selection paths go to collaborators (translate,    *)
(* getEditorUrl, itemLinkMatches) and decide nothing here.                 *)
(*                                                                         *)
(* postTypes is an object keyed by content-type name; it is modelled as    *)
(* the list of its values in key order, each key being the value's name.   *)
(***************************************************************************)
EXTENDS Integers, Sequences, FiniteSets, TLC

VARIABLES
    siteId,          \* props.siteId: 0 when no single site is selected
    allSingleSites,  \* props.allSingleSites
    isJetpack,       \* props.isJetpack
    isSingleUser,    \* props.isSingleUser
    isAtomicSite,    \* props.isAtomicSite
    postTypes,       \* props.postTypes: the content types, in key order
    siteAdminUrl,    \* props.siteAdminUrl
    siteSlug,        \* props.siteSlug
    capabilities,    \* the capabilities props.canCurrentUser answers true for
    enabled,         \* the feature flags config.isEnabled answers true for
    mounted,         \* whether render() has run for the current props
    menuItems,       \* the menuItems array of the last render()
    children         \* menuItems.map( renderMenuItem ) of the last render()

props == <<siteId, allSingleSites, isJetpack, isSingleUser, isAtomicSite,
           postTypes, siteAdminUrl, siteSlug, capabilities, enabled>>
vars == <<siteId, allSingleSites, isJetpack, isSingleUser, isAtomicSite,
          postTypes, siteAdminUrl, siteSlug, capabilities, enabled,
          mounted, menuItems, children>>

-----------------------------------------------------------------------------
(* Bounds and input domains *)

\* how many of the inputs may depart from a fully enabled configuration, a
\* fully privileged user and a site without content types: the disabled
\* feature flags, the capabilities not granted and the content types supplied
MaxDeviation == 3

Undefined == "<undefined>"

\* the feature flags the component asks config about
Flags == {"manage/pages", "manage/posts", "manage/comments",
          "manage/custom-post-types", "manage/plugins",
          "calypsoify/plugins", "manage/import-in-sidebar"}

\* the capabilities the menu items ask for
Capabilities == {"edit_pages", "edit_posts", "upload_files", "manage_options"}

SiteIds == {0, 1}
AdminUrls == {Undefined, "https://example.com/wp-admin/"}
Slugs == {Undefined, "", "example.com"}

\* content types as the post-types state holds them, keyed by their name
PostTypePool ==
    { [name |-> "post", api_queryable |-> TRUE, show_ui |-> TRUE,
       capabilities |-> [edit_posts |-> "edit_posts"]],
      [name |-> "page", api_queryable |-> TRUE, show_ui |-> TRUE,
       capabilities |-> [edit_posts |-> "edit_pages"]],
      [name |-> "wp_block", api_queryable |-> FALSE, show_ui |-> TRUE,
       capabilities |-> [edit_posts |-> "edit_posts"]],
      [name |-> "attachment", api_queryable |-> TRUE, show_ui |-> TRUE,
       capabilities |-> [edit_posts |-> "upload_files"]],
      \* a site on Jetpack < 4.5: no show_ui property
      [name |-> "jetpack-testimonial", api_queryable |-> TRUE,
       capabilities |-> [edit_posts |-> "edit_posts"]],
      [name |-> "product", api_queryable |-> FALSE, show_ui |-> FALSE,
       capabilities |-> [edit_posts |-> "edit_posts"]],
      \* an out-of-date Jetpack: no capabilities property
      [name |-> "portfolio", api_queryable |-> FALSE, show_ui |-> TRUE],
      \* a custom content type registered under the name of a built-in item
      [name |-> "media", api_queryable |-> FALSE, show_ui |-> TRUE,
       capabilities |-> [edit_posts |-> "edit_posts"]] }

Names(l) == { l[i].name : i \in 1..Len(l) }

\* the lists of at most n content types, no name twice: postTypes is an
\* object keyed by name, and its key order is the order of the list
RECURSIVE PostTypeLists(_)
PostTypeLists(n) ==
    IF n <= 0 THEN { <<>> }
    ELSE LET shorter == PostTypeLists(n - 1)
         IN  shorter \cup
             { Append(l, t) : l \in { s \in shorter : Len(s) = n - 1 },
                              t \in PostTypePool }

PostTypeSnapshots(n) ==
    { l \in PostTypeLists(n) : Cardinality(Names(l)) = Len(l) }

FlagStates(n) == { e \in SUBSET Flags : Cardinality(Flags \ e) <= n }

CapabilityStates(n) ==
    { c \in SUBSET Capabilities : Cardinality(Capabilities \ c) <= n }

-----------------------------------------------------------------------------
(* Collaborators *)

\* config.isEnabled( flag )
isEnabledConfig(flag) == flag \in enabled

\* props.canCurrentUser( capability ): an undefined capability is not granted
canCurrentUser(capability) ==
    capability # Undefined /\ capability \in capabilities

\* lodash get( object[property], key ), where the property or the key may be absent
Get(object, property, key) ==
    IF property \in DOMAIN object /\ key \in DOMAIN object[property]
    THEN object[property][key]
    ELSE Undefined

\* a string is truthy unless it is empty or absent
Truthy(s) == s # Undefined /\ s # ""

\* compact( list ).join( '' ): the separator forgotten
RECURSIVE JoinCompact_NoSeparator(_)
JoinCompact_NoSeparator(list) ==
    IF list = <<>> THEN ""
    ELSE IF ~Truthy(Head(list)) THEN JoinCompact_NoSeparator(Tail(list))
    ELSE Head(list) \o JoinCompact_NoSeparator(Tail(list))

\* lodash compact( list ).join( '/' )
RECURSIVE JoinCompact(_)
JoinCompact(list) ==
    IF list = <<>> THEN ""
    ELSE LET rest == JoinCompact(Tail(list))
             restEmpty == SelectSeq(Tail(list), Truthy) = <<>>
         IN  IF ~Truthy(Head(list)) THEN rest
             ELSE IF restEmpty THEN Head(list)
             ELSE Head(list) \o "/" \o rest

-----------------------------------------------------------------------------
(* ManageMenu *)

\* getMyParameter without the '/my' default on a selected site
getMyParameter_NoneWhenSiteSelected ==
    IF siteId # 0
    THEN ""
    ELSE (IF allSingleSites THEN "" ELSE "/my")

getMyParameter ==
    IF siteId # 0
    THEN (IF isSingleUser \/ isJetpack THEN "" ELSE "/my")
    ELSE (IF allSingleSites THEN "" ELSE "/my")

getDefaultMenuItems ==
    << [name |-> "page", capability |-> "edit_pages", queryable |-> TRUE,
        config |-> "manage/pages", link |-> "/pages",
        wpAdminLink |-> "edit.php?post_type=page", showOnAllMySites |-> TRUE],
       [name |-> "post", capability |-> "edit_posts", queryable |-> TRUE,
        config |-> "manage/posts", link |-> "/posts" \o getMyParameter,
        wpAdminLink |-> "edit.php", showOnAllMySites |-> TRUE],
       [name |-> "media", capability |-> "upload_files", queryable |-> TRUE,
        link |-> "/media",
        wpAdminLink |-> "upload.php", showOnAllMySites |-> FALSE],
       [name |-> "comments", capability |-> "edit_posts", queryable |-> TRUE,
        config |-> "manage/comments", link |-> "/comments",
        wpAdminLink |-> "edit-comments.php", showOnAllMySites |-> FALSE] >>

getPluginItem ==
    [name |-> "plugins", capability |-> "manage_options",
     queryable |-> ~isAtomicSite, config |-> "manage/plugins",
     link |-> "/plugins", wpAdminLink |-> "plugin-install.php?calypsoify=1",
     showOnAllMySites |-> TRUE]

getImportItem ==
    [name |-> "import", capability |-> "manage_options",
     queryable |-> ~isJetpack, config |-> "manage/import-in-sidebar",
     link |-> "/settings/import", wpAdminLink |-> "import.php",
     showOnAllMySites |-> FALSE]

\* omit( postTypes, [ 'post', 'page', 'wp_block' ] )
OmittedPostTypes == {"post", "page", "wp_block"}

customPostTypes(types) ==
    SelectSeq(types, LAMBDA t : t.name \notin OmittedPostTypes)

\* the menu item getCustomMenuItems derives from one content type
customMenuItem(postType) ==
    [name |-> postType.name,
     config |-> "manage/custom-post-types",
     queryable |-> postType.api_queryable,
     capability |-> Get(postType, "capabilities", "edit_posts"),
     link |-> "/types/" \o postType.name,
     wpAdminLink |-> "edit.php?post_type=" \o postType.name,
     showOnAllMySites |-> FALSE]

\* the reducer with ! postType.show_ui in place of false === postType.show_ui
RECURSIVE reduceCustom_FalsyShowUi(_, _)
reduceCustom_FalsyShowUi(memo, types) ==
    IF types = <<>> THEN memo
    ELSE LET postType == Head(types)
         IN  IF "show_ui" \notin DOMAIN postType \/ postType.show_ui = FALSE
             THEN reduceCustom_FalsyShowUi(memo, Tail(types))
             ELSE reduceCustom_FalsyShowUi(
                      Append(memo, customMenuItem(postType)), Tail(types))

\* the reducer of getCustomMenuItems
RECURSIVE reduceCustom(_, _)
reduceCustom(memo, types) ==
    IF types = <<>> THEN memo
    ELSE LET postType == Head(types)
         IN  IF "show_ui" \in DOMAIN postType /\ postType.show_ui = FALSE
             THEN reduceCustom(memo, Tail(types))
             ELSE reduceCustom(Append(memo, customMenuItem(postType)), Tail(types))

getCustomMenuItems == reduceCustom(<<>>, customPostTypes(postTypes))

\* render() pushing the import item before the plugins item
assembleMenuItems_ImportFirst ==
    getDefaultMenuItems \o getCustomMenuItems
      \o (IF isEnabledConfig("manage/import-in-sidebar") THEN <<getImportItem>> ELSE <<>>)
      \o (IF isEnabledConfig("calypsoify/plugins") THEN <<getPluginItem>> ELSE <<>>)

\* the menuItems array render() builds
assembleMenuItems ==
    getDefaultMenuItems \o getCustomMenuItems
      \o (IF isEnabledConfig("calypsoify/plugins") THEN <<getPluginItem>> ELSE <<>>)
      \o (IF isEnabledConfig("manage/import-in-sidebar") THEN <<getImportItem>> ELSE <<>>)

Null == [rendered |-> FALSE]

isEnabled(menuItem) ==
    "config" \notin DOMAIN menuItem \/ isEnabledConfig(menuItem.config)

\* the admin-link condition without the feature flag
usesAdminLink_IgnoresFlag(menuItem) ==
    ~menuItem.queryable /\ Truthy(siteAdminUrl)

usesAdminLink(menuItem) ==
    (~isEnabled(menuItem) \/ ~menuItem.queryable) /\ Truthy(siteAdminUrl)

\* the internal link built from the slug alone
itemLink_SlugOnly(menuItem) ==
    IF usesAdminLink(menuItem)
    THEN siteAdminUrl \o menuItem.wpAdminLink
    ELSE JoinCompact(<<siteSlug>>)

itemLink(menuItem) ==
    IF usesAdminLink(menuItem)
    THEN siteAdminUrl \o menuItem.wpAdminLink
    ELSE JoinCompact(<<menuItem.link, siteSlug>>)

itemPreload(menuItem) ==
    IF menuItem.name \in {"post", "page"} THEN "posts-pages"
    ELSE IF menuItem.name = "comments" THEN "comments"
    ELSE "posts-custom"

itemIcon(menuItem) ==
    CASE menuItem.name = "post" -> "posts"
      [] menuItem.name = "page" -> "pages"
      [] menuItem.name = "import" -> "cloud-upload"
      [] menuItem.name = "jetpack-portfolio" -> "folder"
      [] menuItem.name = "jetpack-testimonial" -> "quote"
      [] menuItem.name = "media" -> "image"
      [] menuItem.name = "comments" -> "chat"
      [] menuItem.name = "plugins" -> "plugins"
      [] OTHER -> "custom-post-type"

\* the child renderMenuItem returns for an item it does not hide
renderedItem(menuItem) ==
    [rendered |-> TRUE,
     key |-> menuItem.name,
     link |-> itemLink(menuItem),
     icon |-> itemIcon(menuItem),
     preloadSectionName |-> itemPreload(menuItem)]

\* renderMenuItem asking for the capability only of items whose flag is enabled
renderMenuItem_CapabilityAfterFlag(menuItem) ==
    IF siteId # 0 /\ isEnabled(menuItem) /\ ~canCurrentUser(menuItem.capability)
    THEN Null
    ELSE IF menuItem.name = "attachment" THEN Null
    ELSE IF siteId = 0 /\ (~isEnabled(menuItem) \/ ~menuItem.showOnAllMySites)
    THEN Null
    ELSE renderedItem(menuItem)

\* renderMenuItem hiding, with no site selected, only the items whose flag is
\* disabled
renderMenuItem_IgnoresShowOnAllMySites(menuItem) ==
    IF siteId # 0 /\ ~canCurrentUser(menuItem.capability) THEN Null
    ELSE IF menuItem.name = "attachment" THEN Null
    ELSE IF siteId = 0 /\ ~isEnabled(menuItem)
    THEN Null
    ELSE renderedItem(menuItem)

\* renderMenuItem asking for the capability only of items that name one
renderMenuItem_UndefinedCapabilityPasses(menuItem) ==
    IF /\ siteId # 0
       /\ menuItem.capability # Undefined
       /\ ~canCurrentUser(menuItem.capability)
    THEN Null
    ELSE IF menuItem.name = "attachment" THEN Null
    ELSE IF siteId = 0 /\ (~isEnabled(menuItem) \/ ~menuItem.showOnAllMySites)
    THEN Null
    ELSE renderedItem(menuItem)

renderMenuItem(menuItem) ==
    IF siteId # 0 /\ ~canCurrentUser(menuItem.capability) THEN Null
    ELSE IF menuItem.name = "attachment" THEN Null
    ELSE IF siteId = 0 /\ (~isEnabled(menuItem) \/ ~menuItem.showOnAllMySites)
    THEN Null
    ELSE renderedItem(menuItem)

renderChildren(items) ==
    [i \in 1..Len(items) |-> renderMenuItem(items[i])]

-----------------------------------------------------------------------------
(* The component's life *)

Init ==
    /\ enabled \in FlagStates(MaxDeviation)
    /\ capabilities \in
         CapabilityStates(MaxDeviation - Cardinality(Flags \ enabled))
    /\ postTypes \in
         PostTypeSnapshots(MaxDeviation - Cardinality(Flags \ enabled)
                                        - Cardinality(Capabilities \ capabilities))
    /\ siteId \in SiteIds
    /\ allSingleSites \in BOOLEAN
    /\ isJetpack \in BOOLEAN
    /\ isSingleUser \in BOOLEAN
    /\ isAtomicSite \in BOOLEAN
    /\ siteAdminUrl \in AdminUrls
    /\ siteSlug \in Slugs
    /\ mounted = FALSE
    /\ menuItems = <<>>
    /\ children = <<>>

\* render()
Render ==
    /\ ~mounted
    /\ mounted' = TRUE
    /\ menuItems' = assembleMenuItems
    /\ children' = renderChildren(assembleMenuItems)
    /\ UNCHANGED props

Next == Render

Spec == Init /\ [][Next]_vars

-----------------------------------------------------------------------------
(* Vocabulary of the properties *)

Items == 1..Len(menuItems)

\* the item's feature flag (config) is unset or enabled
FlagOn(item) == "config" \notin DOMAIN item \/ item.config \in enabled

\* the item carries a capability
CapabilitySet(item) == item.capability # Undefined

\* the item was derived from a content type
IsCustom(item) ==
    "config" \in DOMAIN item /\ item.config = "manage/custom-post-types"

\* the two links an item can get
ExternalLink(item) == siteAdminUrl \o item.wpAdminLink
InternalLink(item) ==
    IF siteSlug # Undefined /\ siteSlug # ""
    THEN item.link \o "/" \o siteSlug
    ELSE item.link

\* the condition under which an item links to the site's admin
WantsExternal(item) ==
    (~item.queryable \/ ~FlagOn(item)) /\ siteAdminUrl # Undefined /\ siteAdminUrl # ""

\* a content type the catalog admits
Admitted(postType) ==
    /\ postType.name \notin {"post", "page", "wp_block"}
    /\ ~("show_ui" \in DOMAIN postType /\ postType.show_ui = FALSE)

\* a content type without capabilities.edit_posts
LacksCapability(postType) ==
    \/ "capabilities" \notin DOMAIN postType
    \/ "edit_posts" \notin DOMAIN postType.capabilities

\* the names of the admitted content types, in the order supplied
RECURSIVE AdmittedNames(_)
AdmittedNames(types) ==
    IF types = <<>> THEN <<>>
    ELSE (IF Admitted(Head(types)) THEN <<Head(types).name>> ELSE <<>>)
           \o AdmittedNames(Tail(types))

CatalogNames == [i \in Items |-> menuItems[i].name]

-----------------------------------------------------------------------------
(* C1 *)

\* C1: with a single site selected, an item whose capability is set and is
\* not granted to the user is omitted, whatever its other fields are.
C1_DeniedCapabilityOmits ==
    mounted =>
        \A i \in Items :
            (/\ CapabilitySet(menuItems[i])
             /\ siteId # 0
             /\ menuItems[i].capability \notin capabilities)
            => children[i] = Null

\* an item whose feature flag is enabled and that is queryable is omitted on a
\* selected site for want of its capability
C1_Witness ==
    /\ mounted
    /\ siteId # 0
    /\ \E i \in Items :
        /\ CapabilitySet(menuItems[i])
        /\ menuItems[i].capability \notin capabilities
        /\ FlagOn(menuItems[i])
        /\ menuItems[i].queryable
        /\ children[i] = Null

-----------------------------------------------------------------------------
(* C2 *)

\* C2: with no single site selected, an item is emitted only if its feature
\* flag is unset or enabled and its showOnAllMySites is true; whether it is
\* emitted is decided by these two alone, the capabilities playing no part.
C2_AllSitesVisibility ==
    (mounted /\ siteId = 0) =>
        \A i \in Items :
            children[i].rendered
              <=> (FlagOn(menuItems[i]) /\ menuItems[i].showOnAllMySites)

\* with no site selected an item is emitted though its capability is not
\* granted, and another is omitted though its capability is granted
C2_Witness ==
    /\ mounted
    /\ siteId = 0
    /\ \E i \in Items :
        /\ children[i].rendered
        /\ menuItems[i].capability \notin capabilities
    /\ \E i \in Items :
        /\ ~children[i].rendered
        /\ ~menuItems[i].showOnAllMySites
        /\ FlagOn(menuItems[i])
        /\ menuItems[i].capability \in capabilities
    /\ \E i \in Items :
        /\ ~children[i].rendered
        /\ menuItems[i].showOnAllMySites
        /\ ~FlagOn(menuItems[i])

-----------------------------------------------------------------------------
(* C3 *)

\* C3: an emitted item links to siteAdminUrl + wpAdminLink exactly when it is
\* not queryable or its feature flag is disabled, and an admin URL is
\* available; otherwise it links to its link and the site slug joined by '/',
\* the slug left out when absent or empty.
C3_LinkResolution ==
    mounted =>
        \A i \in Items :
            children[i].rendered =>
                /\ (children[i].link = ExternalLink(menuItems[i]))
                     <=> WantsExternal(menuItems[i])
                /\ ~WantsExternal(menuItems[i])
                     => children[i].link = InternalLink(menuItems[i])

\* one render emits an admin link for an item whose flag is disabled, and an
\* internal link without a slug segment for an item that is not queryable
C3_Witness ==
    /\ mounted
    /\ \E i \in Items :
        /\ children[i].rendered
        /\ menuItems[i].queryable
        /\ ~FlagOn(menuItems[i])
        /\ children[i].link = ExternalLink(menuItems[i])
    /\ \E i \in Items :
        /\ children[i].rendered
        /\ FlagOn(menuItems[i])
        /\ children[i].link = InternalLink(menuItems[i])
        /\ children[i].link = menuItems[i].link \o "/" \o "example.com"

-----------------------------------------------------------------------------
(* C4 *)

\* the posts item is the second built-in
PostItem == menuItems[2]
PageItem == menuItems[1]
HasMySuffix == PostItem.link = "/posts/my"

\* C4, as claimed: the '/my' suffix appears only with no single site
\* selected; with a single site selected the posts link stem is '/posts',
\* whatever the single-user and Jetpack flags are.
C4_Claimed_MyOnlyOnAllSites ==
    mounted =>
        /\ HasMySuffix => siteId = 0
        /\ siteId # 0 => PostItem.link = "/posts"

\* C4, amended: the posts link stem is '/posts/my' exactly when a single site
\* is selected that is neither single-user nor Jetpack, or no single site is
\* selected and not all sites are single-user; otherwise it is '/posts'.
C4_MySuffixRule ==
    mounted =>
        /\ PostItem.name = "post"
        /\ PostItem.link \in {"/posts", "/posts/my"}
        /\ HasMySuffix <=>
             \/ siteId # 0 /\ ~isSingleUser /\ ~isJetpack
             \/ siteId = 0 /\ ~allSingleSites

\* a selected multi-user, non-Jetpack site has the '/my' suffix
C4_Witness ==
    /\ mounted
    /\ siteId # 0
    /\ ~isSingleUser
    /\ ~isJetpack
    /\ allSingleSites
    /\ HasMySuffix

-----------------------------------------------------------------------------
(* C5 *)

\* both built-ins are emitted with internal links on a selected site that
\* has a slug
C5_Scenario ==
    /\ mounted
    /\ siteId # 0
    /\ {"edit_pages", "edit_posts"} \subseteq capabilities
    /\ siteSlug = "example.com"
    /\ ~WantsExternal(PageItem)
    /\ ~WantsExternal(PostItem)

\* C5: in that scenario, on a single-user site the posts link is
\* '/posts/<slug>' and the pages link '/pages/<slug>'; on a multi-user site
\* that is not Jetpack the posts link is '/posts/my/<slug>'.
C5_BuiltInLinks ==
    C5_Scenario =>
        /\ children[1].rendered /\ children[1].key = "page"
        /\ children[2].rendered /\ children[2].key = "post"
        /\ isSingleUser =>
             /\ children[2].link = "/posts/example.com"
             /\ children[1].link = "/pages/example.com"
        /\ (~isSingleUser /\ ~isJetpack) =>
             children[2].link = "/posts/my/example.com"

\* the multi-user scenario, with an admin URL available
C5_Witness ==
    /\ C5_Scenario
    /\ ~isSingleUser
    /\ ~isJetpack
    /\ siteAdminUrl # Undefined
    /\ children[2].link = "/posts/my/example.com"
    /\ children[1].link = "/pages/example.com"

-----------------------------------------------------------------------------
(* C6 *)

BuiltInNames == <<"page", "post", "media", "comments">>

\* the catalog order, the optional items appended under the given conditions
CatalogOrder(withPlugins, withImport) ==
    BuiltInNames \o AdmittedNames(postTypes)
      \o (IF withPlugins THEN <<"plugins">> ELSE <<>>)
      \o (IF withImport THEN <<"import">> ELSE <<>>)

\* every child is the rendering of the menu item at its position, or null
OutputInCatalogOrder ==
    /\ Len(children) = Len(menuItems)
    /\ \A i \in Items : children[i].rendered => children[i].key = menuItems[i].name

\* C6, as claimed: built-ins, custom types in the order supplied, then
\* 'plugins' iff its feature flag (manage/plugins) is enabled, then 'import'
\* iff its feature flag (manage/import-in-sidebar) is enabled.
C6_Claimed_OwnFlagGates ==
    mounted =>
        /\ CatalogNames = CatalogOrder("manage/plugins" \in enabled,
                                       "manage/import-in-sidebar" \in enabled)
        /\ OutputInCatalogOrder

\* C6, amended: built-ins, custom types in the order supplied, then 'plugins'
\* iff the flag calypsoify/plugins is enabled (not the item's own flag,
\* manage/plugins), then 'import' iff manage/import-in-sidebar is enabled; the
\* output is that sequence with the omitted items removed, in the same order.
C6_CatalogOrder ==
    mounted =>
        /\ CatalogNames = CatalogOrder("calypsoify/plugins" \in enabled,
                                       "manage/import-in-sidebar" \in enabled)
        /\ OutputInCatalogOrder

\* two custom types supplied in an order that is not alphabetical, both
\* optional items present, an item omitted between emitted ones, and the
\* plugins item present with its own flag disabled
C6_Witness ==
    /\ mounted
    /\ "manage/plugins" \notin enabled
    /\ CatalogNames = <<"page", "post", "media", "comments", "portfolio",
                        "jetpack-testimonial", "plugins", "import">>
    /\ children[4].rendered
    /\ ~children[5].rendered
    /\ children[6].rendered
    /\ children[7].rendered

-----------------------------------------------------------------------------
(* C7 *)

\* the catalog entries derived from the content type of the given name
DerivedFrom(name) ==
    { i \in Items : IsCustom(menuItems[i]) /\ menuItems[i].name = name }

\* C7: each supplied content type has exactly one derived menu item, except
\* post, page, wp_block and the types whose show_ui is false, which have
\* none; no other derived item exists.
C7_OneItemPerAdmittedType ==
    mounted =>
        /\ \A k \in 1..Len(postTypes) :
             Cardinality(DerivedFrom(postTypes[k].name))
               = (IF Admitted(postTypes[k]) THEN 1 ELSE 0)
        /\ \A i \in Items :
             IsCustom(menuItems[i]) => menuItems[i].name \in Names(postTypes)

\* a reserved type, a type with show_ui false and a type without show_ui are
\* supplied together; only the last one gets a menu item
C7_Witness ==
    /\ mounted
    /\ Names(postTypes) = {"wp_block", "product", "jetpack-testimonial"}
    /\ DerivedFrom("wp_block") = {}
    /\ DerivedFrom("product") = {}
    /\ Cardinality(DerivedFrom("jetpack-testimonial")) = 1

-----------------------------------------------------------------------------
(* C8 *)

\* C8: no two catalog entries share a name, and no entry derived from a
\* content type has the name of a built-in entry.
C8_NamesUnique ==
    mounted =>
        /\ \A i, j \in Items : i # j => menuItems[i].name # menuItems[j].name
        /\ \A i \in Items :
             IsCustom(menuItems[i])
               => menuItems[i].name \notin {"post", "page", "media", "comments"}

-----------------------------------------------------------------------------
(* C9 *)

\* C9: a content type without capabilities.edit_posts that the catalog admits
\* has a menu item, whose capability is undefined, and that item is omitted
\* whenever a single site is selected.
C9_MissingCapabilityFailsClosed ==
    mounted =>
        \A k \in 1..Len(postTypes) :
            (Admitted(postTypes[k]) /\ LacksCapability(postTypes[k])) =>
                \E i \in Items :
                    /\ DerivedFrom(postTypes[k].name) = {i}
                    /\ menuItems[i].capability = Undefined
                    /\ siteId # 0 => children[i] = Null

\* on a selected site where the user has every capability, the item of a
\* content type without capabilities is in the catalog and omitted
C9_Witness ==
    /\ mounted
    /\ siteId # 0
    /\ capabilities = Capabilities
    /\ \E i \in Items :
        /\ menuItems[i].name = "portfolio"
        /\ menuItems[i].capability = Undefined
        /\ children[i] = Null

-----------------------------------------------------------------------------
(* C10 *)

\* C10: every emitted item carries one link, which is its internal route or
\* its admin link and not both; with a site selected and an admin URL
\* available no emitted item has an empty link.
C10_ExactlyOneLink ==
    mounted =>
        \A i \in Items :
            children[i].rendered =>
                /\ "link" \in DOMAIN children[i]
                /\ (children[i].link = InternalLink(menuItems[i]))
                     # (children[i].link = ExternalLink(menuItems[i]))
                /\ (siteId # 0 /\ siteAdminUrl # Undefined /\ siteAdminUrl # "")
                     => children[i].link # ""

\* on a selected site with an admin URL but no slug, one item is emitted
\* with its internal route and another with its admin link
C10_Witness ==
    /\ mounted
    /\ siteId # 0
    /\ siteAdminUrl # Undefined
    /\ siteSlug = Undefined
    /\ \E i \in Items :
        /\ children[i].rendered
        /\ children[i].link = menuItems[i].link
    /\ \E i \in Items :
        /\ children[i].rendered
        /\ children[i].link = ExternalLink(menuItems[i])

====
